---- MODULE Spec2Model ----
(***************************************************************************)
(* The claim reconciliation engine of polymarket-copytrade-scripts:        *)
(*   lib/claim (src/app/api/status/route.ts, lines 40-217):                *)
(*     normalizeConditionId, claimViaRelayer, claimViaDirect, claimWinnings*)
(*   the claim-now route (src/app/api/claim-now/route.ts, lines 1-34):     *)
(*     POST, the caller of claimWinnings.                                  *)
(*                                                                         *)
(* Strings are sequences of one-character strings, so that slice, padStart *)
(* and startsWith are computed as the code computes them.                  *)
(***************************************************************************)
EXTENDS Integers, Sequences, FiniteSets, TLC

VARIABLES
  env,          \* process.env: the six builder credential variables
  privateKey,   \* PRIVATE_KEY of the claim-now route (module constant)
  kv,           \* the persisted state written by setState
  pc,           \* per request handler: the await it is suspended at
  result,       \* per handler: the ClaimResult accumulator of its run
  positions,    \* per handler: what getPositions returned to its run, as a
                \* bag (position -> copies): the order of the list reaches
                \* the rest of the run only through conditionIds
  conditionIds, \* per handler: the deduplicated list given to the redeemer
  idx,          \* per handler: 1-based position of the for-of loop
  invoked,      \* per handler: the redeemers called in its run
  creds,        \* per handler: credentials given to BuilderConfig
  log,          \* per handler: the loop iterations of its latest run
  pending,      \* per handler: ids that failed in its previous run (while
                \* fetching), of these the ids reported again (afterwards)
  ret,          \* per handler: how claimWinnings ended (returned / threw)
  resp,         \* per handler: the HTTP response of the POST
  normHist      \* successive values of repeated normalizeConditionId calls

vars == <<env, privateKey, kv, pc, result, positions, conditionIds, idx,
          invoked, creds, log, pending, ret, resp, normHist>>

progVars == <<env, privateKey, kv, pc, result, positions, conditionIds, idx,
              invoked, creds, log, pending, ret, resp>>

----------------------------------------------------------------------------
(* Bounds of the model.                                                    *)

\* longest list of positions the Position Source returns to a run
MaxPositions == 3
\* longest list of positions in the specifications with concurrent requests
\* or with every credential configuration
MaxShortPositions == 1
\* number of request handlers that may be in progress at once
MaxRequests == 2
\* longest free-form head of a normalizer input
MaxHead == 4
\* number of times the normalizer is applied to its own output
MaxNormCalls == 2

(* Program constants.                                                      *)

\* padStart(64, "0").slice(-64)
PadWidth == 64
\* conditionId.slice(0, 10)
IdPrefixLen == 10
\* msg.slice(0, 80)
MsgLimit == 80
\* getPositions(myAddress, 200)
PositionsLimit == 200

----------------------------------------------------------------------------
(* String primitives of the JavaScript runtime.                            *)

Rep(c, n) == [k \in 1..n |-> c]

\* s.slice(0, n)
SliceFirst(s, n) == IF Len(s) <= n THEN s ELSE SubSeq(s, 1, n)

\* s.slice(-n)
SliceLast(s, n) == IF Len(s) <= n THEN s ELSE SubSeq(s, Len(s) - n + 1, Len(s))

\* s.slice(n)
SliceFrom(s, n) == IF Len(s) <= n THEN <<>> ELSE SubSeq(s, n + 1, Len(s))

\* s.padStart(n, c)
PadStart(s, n, c) == IF Len(s) >= n THEN s ELSE Rep(c, n - Len(s)) \o s

\* s.startsWith(pre)
StartsWith(s, pre) == Len(s) >= Len(pre) /\ SubSeq(s, 1, Len(pre)) = pre

HexPrefix == <<"0", "x">>

----------------------------------------------------------------------------
(* Condition Normalizer.                                                   *)

\* a normalizer that forgets to put the 0x prefix back
normalizeNoPrefix(id) ==
  LET hex == IF StartsWith(id, HexPrefix) THEN SliceFrom(id, 2) ELSE id
  IN  SliceLast(PadStart(hex, PadWidth, "0"), PadWidth)

\* a normalizer that pads but does not cut to the last 64 characters
normalizeNoCut(id) ==
  LET hex == IF StartsWith(id, HexPrefix) THEN SliceFrom(id, 2) ELSE id
  IN  HexPrefix \o PadStart(hex, PadWidth, "0")

normalizeConditionId(id) ==
  LET hex == IF StartsWith(id, HexPrefix) THEN SliceFrom(id, 2) ELSE id
  IN  HexPrefix \o SliceLast(PadStart(hex, PadWidth, "0"), PadWidth)

----------------------------------------------------------------------------
(* Inputs of the normalizer: a free-form head over a small alphabet,       *)
(* followed by a filler that brings the length below, to, or above 64.     *)

NormChars == {"0", "x", "a"}

NormHeads == UNION {[1..k -> NormChars] : k \in 0..MaxHead}

FillLens == {0} \cup ((PadWidth - MaxHead)..PadWidth)

NormInputs == {h \o Rep("a", n) : h \in NormHeads, n \in FillLens}

----------------------------------------------------------------------------
(* Positions reported by the Position Source.                              *)

\* a conditionId that is not a string (typeof id !== "string")
Undefined == <<"<undefined>">>

EmptyId == <<>>
IdAbc == <<"a", "b", "c">>
IdDef == <<"d", "e", "f">>
\* the canonical 66-character form of "abc": another string, the same condition
IdAbcFull == normalizeConditionId(IdAbc)

ConditionIdValues == {Undefined, EmptyId, IdAbc, IdDef, IdAbcFull}

Position(c, s, r) == [conditionId |-> c, size |-> s, redeemable |-> r]

\* every id held redeemable with a positive size, and one id also held with
\* size 0 and held without being redeemable
Positions ==
  {Position(c, 5, TRUE) : c \in ConditionIdValues}
    \cup {Position(IdAbc, 0, TRUE), Position(IdAbc, 2, FALSE)}

PositionLists(n) == UNION {[1..k -> Positions] : k \in 0..n}

\* the positions of a list with their number of copies
BagOf(ps) ==
  [q \in {ps[k] : k \in 1..Len(ps)} |->
     Cardinality({k \in 1..Len(ps) : ps[k] = q})]

----------------------------------------------------------------------------
(* Environment.                                                            *)

\* the value of an environment variable that is not set (undefined)
Unset == "<unset>"

EnvNames == {"POLY_BUILDER_API_KEY", "BUILDER_API_KEY",
             "POLY_BUILDER_SECRET", "BUILDER_SECRET",
             "POLY_BUILDER_PASSPHRASE", "BUILDER_PASSPHRASE"}

\* a variable is unset, set to the empty string, or set to a secret of its own
\* (the variable's name stands for that secret)
EnvValues(n) == {Unset, "", n}

EnvConfigs ==
  [POLY_BUILDER_API_KEY    : EnvValues("POLY_BUILDER_API_KEY"),
   BUILDER_API_KEY         : EnvValues("BUILDER_API_KEY"),
   POLY_BUILDER_SECRET     : EnvValues("POLY_BUILDER_SECRET"),
   BUILDER_SECRET          : EnvValues("BUILDER_SECRET"),
   POLY_BUILDER_PASSPHRASE : EnvValues("POLY_BUILDER_PASSPHRASE"),
   BUILDER_PASSPHRASE      : EnvValues("BUILDER_PASSPHRASE")]

\* the two configurations the doc comment of claimWinnings names: the three
\* POLY_BUILDER_* variables set, or no builder credential at all
PrimaryEnvs ==
  {e \in EnvConfigs :
     /\ \A n \in {"BUILDER_API_KEY", "BUILDER_SECRET", "BUILDER_PASSPHRASE"} :
          e[n] = Unset
     /\ \/ \A n \in {"POLY_BUILDER_API_KEY", "POLY_BUILDER_SECRET",
                     "POLY_BUILDER_PASSPHRASE"} : e[n] = n
        \/ \A n \in {"POLY_BUILDER_API_KEY", "POLY_BUILDER_SECRET",
                     "POLY_BUILDER_PASSPHRASE"} : e[n] = Unset}

\* PRIVATE_KEY: unset, a string that is no private key, a private key
PrivateKeys == {Unset, "not-a-key", "0xkey"}

\* a ?? b
Coalesce(a, b) == IF a # Unset THEN a ELSE b

\* !!v of a string or undefined
Truthy(v) == v # Unset /\ v # ""

\* the three credentials as both claimWinnings and claimViaRelayer read them
BuilderCreds(e) ==
  [key        |-> Coalesce(e["POLY_BUILDER_API_KEY"], e["BUILDER_API_KEY"]),
   secret     |-> Coalesce(e["POLY_BUILDER_SECRET"], e["BUILDER_SECRET"]),
   passphrase |-> Coalesce(e["POLY_BUILDER_PASSPHRASE"], e["BUILDER_PASSPHRASE"])]

NoCreds == [key |-> Unset, secret |-> Unset, passphrase |-> Unset]

\* a selector that takes the relayed path as soon as one credential is there
useRelayerAny(e) ==
  \/ Truthy(BuilderCreds(e).key)
  \/ Truthy(BuilderCreds(e).secret)
  \/ Truthy(BuilderCreds(e).passphrase)

useRelayer(e) ==
  /\ Truthy(BuilderCreds(e).key)
  /\ Truthy(BuilderCreds(e).secret)
  /\ Truthy(BuilderCreds(e).passphrase)

\* a dispatch that also falls through to the direct redeemer
InvokedBoth(useRel) == IF useRel THEN {"relayed", "direct"} ELSE {"direct"}

\* the redeemers claimWinnings calls: the if/else on useRelayer
InvokedRedeemers(useRel) == IF useRel THEN {"relayed"} ELSE {"direct"}

\* privateKeyToAccount(privateKey) / new Wallet(privateKey, provider) reject a
\* string that is no private key; both run before the loop, outside any try
SetupThrows(via, key) == key # "0xkey"

----------------------------------------------------------------------------
(* Filtering and deduplication.                                            *)

\* a filter that forgets the size
RedeemableAnySize(ps) == SelectSeq(ps, LAMBDA p : p.redeemable)

\* positions.filter((p) => p.redeemable && p.size > 0)
Redeemable(ps) == SelectSeq(ps, LAMBDA p : p.redeemable /\ p.size > 0)

\* redeemable.map((p) => p.conditionId)
MapIds(ps) == [k \in 1..Len(ps) |-> ps[k].conditionId]

\* Array.from(new Set(a)): first occurrences, in order
UniqueInOrder(a) ==
  LET F[k \in 0..Len(a)] ==
        IF k = 0 THEN <<>>
        ELSE IF \E j \in 1..(k - 1) : a[j] = a[k]
             THEN F[k - 1]
             ELSE Append(F[k - 1], a[k])
  IN  F[Len(a)]

\* a deduplication that keeps repeated ids
DedupIdsKeepAll(red) ==
  SelectSeq(MapIds(red), LAMBDA id : id # Undefined /\ Len(id) > 0)

\* Array.from(new Set(...)).filter(typeof id === "string" && id.length > 0)
DedupIds(red) ==
  SelectSeq(UniqueInOrder(MapIds(red)), LAMBDA id : id # Undefined /\ Len(id) > 0)

----------------------------------------------------------------------------
(* The ClaimResult accumulator.                                            *)

ZeroResult == [claimed |-> 0, failed |-> 0, errors |-> <<>>, txHashes |-> <<>>]

ShortMsg == <<"r", "e", "v", "e", "r", "t">>
\* 81 characters: one more than msg.slice(0, 80) keeps
LongMsg == Rep("m", MsgLimit) \o <<"!">>
Messages == {ShortMsg, LongMsg}

\* an error record that keeps the whole condition id
ErrorRecordWholeId(id, msg) ==
  id \o <<"...", ":", " ">> \o SliceFirst(msg, MsgLimit)

\* `${conditionId.slice(0, 10)}<ellipsis>: ${msg.slice(0, 80)}`; the one
\* element "..." stands for the ellipsis character
ErrorRecord(id, msg) ==
  SliceFirst(id, IdPrefixLen) \o <<"...", ":", " ">> \o SliceFirst(msg, MsgLimit)

\* an error record of the direct redeemer that keeps the whole message
ErrorRecordDirectWholeMsg(id, msg) ==
  SliceFirst(id, IdPrefixLen) \o <<"...", ":", " ">> \o msg

\* the same template literal in the catch block of claimViaDirect
ErrorRecordDirect(id, msg) ==
  SliceFirst(id, IdPrefixLen) \o <<"...", ":", " ">> \o SliceFirst(msg, MsgLimit)

\* the catch block of claimViaRelayer: result.failed++; result.errors.push(...)
OnFailure(res, id, msg) ==
  [res EXCEPT !.failed = @ + 1, !.errors = Append(@, ErrorRecord(id, msg))]

\* the catch block of claimViaDirect
OnFailureDirect(res, id, msg) ==
  [res EXCEPT !.failed = @ + 1, !.errors = Append(@, ErrorRecordDirect(id, msg))]

\* the hash the backend reports for the transaction handler p submitted in
\* its k-th iteration with condition id `data`
TxHash(p, k, data) == [by |-> p, seq |-> k, cond |-> data]

\* a receipt that is counted without its hash being kept
OnReceiptCountOnly(res, hash) == [res EXCEPT !.claimed = @ + 1]

\* if (waitResult?.transactionHash) { result.claimed++; result.txHashes.push }
OnReceipt(res, hash) ==
  [res EXCEPT !.claimed = @ + 1, !.txHashes = Append(@, hash)]

\* if (receipt?.transactionHash) { result.claimed++; result.txHashes.push }
OnReceiptDirect(res, hash) ==
  [res EXCEPT !.claimed = @ + 1, !.txHashes = Append(@, hash)]

\* the accumulator after a failure in the loop of redeemer via
RecordFailure(via, res, id, msg) ==
  IF via = "relayed" THEN OnFailure(res, id, msg) ELSE OnFailureDirect(res, id, msg)

\* the accumulator after a receipt with a hash in the loop of redeemer via
RecordReceipt(via, res, hash) ==
  IF via = "relayed" THEN OnReceipt(res, hash) ELSE OnReceiptDirect(res, hash)

\* one accumulator object shared by every call
AccumulatorShared(p) == 1

\* const result: ClaimResult = {...} inside claimWinnings: every call creates
\* the accumulator it works on; the call of handler p works on result[p]
AccumulatorOf(p) == p

\* a loop that tries a failing condition again
LoopNextRetry(k, n, threw) == IF threw THEN k ELSE IF k >= n THEN 0 ELSE k + 1

\* a loop that stops at the first failing condition
LoopNextAbort(k, n, threw) == IF threw \/ k >= n THEN 0 ELSE k + 1

\* for (const conditionId of conditionIds) with the try/catch inside the body:
\* the next position after iteration k of n, 0 when the loop is over
LoopNext(k, n, threw) == IF k >= n THEN 0 ELSE k + 1

----------------------------------------------------------------------------
(* State of the request handlers.                                          *)

\* Date.now(): the model records that a timestamp was written, not which
Stamped == "stamped"

Handlers == 1..MaxRequests

\* the handler of the specifications in which requests arrive one at a time
Sequential == {1}

NoResponse ==
  [status |-> 0, ok |-> "none", error |-> "", claimed |-> 0, failed |-> 0,
   errors |-> <<>>, txHashes |-> <<>>]

ErrorResponse(okField, msg) ==
  [status |-> 500, ok |-> okField, error |-> msg, claimed |-> 0, failed |-> 0,
   errors |-> <<>>, txHashes |-> <<>>]

OkResponse(res) ==
  [status |-> 200, ok |-> "true", error |-> "", claimed |-> res.claimed,
   failed |-> res.failed, errors |-> res.errors, txHashes |-> res.txHashes]

\* the redeemer whose loop runs
Via(inv) == IF "relayed" \in inv THEN "relayed" ELSE "direct"

\* one loop iteration: the condition id, the redeemer, the normalized id put
\* in the call, how the iteration ended and the message of the error caught
NoMsg == <<>>

Iteration(id, via) ==
  [id |-> id, via |-> via, data |-> normalizeConditionId(id),
   outcome |-> "pending", msg |-> NoMsg]

\* a loop that goes on without awaiting the call it has made
CloseNotAwaited(lg, outcome, msg) == lg

\* the awaited call of the last iteration has settled
Close(lg, outcome, msg) ==
  [lg EXCEPT ![Len(lg)].outcome = outcome, ![Len(lg)].msg = msg]

\* the Position Source answers with at most `limit` of the positions it holds
getPositions(held, limit) == SliceFirst(held, limit)

\* a persisted result with the two counts exchanged
PersistedSwapped(res) ==
  [lastClaimAt |-> Stamped,
   lastClaimResult |-> <<[claimed |-> res.failed, failed |-> res.claimed]>>]

\* setState({ lastClaimAt: Date.now(), lastClaimResult: { claimed, failed } })
Persisted(res) ==
  [lastClaimAt |-> Stamped,
   lastClaimResult |-> <<[claimed |-> res.claimed, failed |-> res.failed]>>]

\* the store before any claim was persisted, and with the result of an
\* earlier claim in it
KvFresh == [lastClaimAt |-> Unset, lastClaimResult |-> <<>>]

KvStates == {KvFresh, Persisted([claimed |-> 1, failed |-> 0])}

InitProgramWith(Envs, Kvs) ==
  /\ env \in Envs
  /\ privateKey \in PrivateKeys
  /\ kv \in Kvs
  /\ pc = [p \in Handlers |-> "idle"]
  /\ result = [p \in Handlers |-> ZeroResult]
  /\ positions = [p \in Handlers |-> <<>>]
  /\ conditionIds = [p \in Handlers |-> <<>>]
  /\ idx = [p \in Handlers |-> 0]
  /\ invoked = [p \in Handlers |-> {}]
  /\ creds = [p \in Handlers |-> NoCreds]
  /\ log = [p \in Handlers |-> <<>>]
  /\ pending = [p \in Handlers |-> {}]
  /\ ret = [p \in Handlers |-> "none"]
  /\ resp = [p \in Handlers |-> NoResponse]

InitProgram(Envs) == InitProgramWith(Envs, {KvFresh})

----------------------------------------------------------------------------
(* POST of the claim-now route.                                            *)

\* if (!PRIVATE_KEY) return 500
PostNoKey(p) ==
  /\ pc[p] \in {"idle", "responded"}
  /\ ~Truthy(privateKey)
  /\ pc' = [pc EXCEPT ![p] = "responded"]
  /\ resp' = [resp EXCEPT ![p] = ErrorResponse("absent", "PRIVATE_KEY not configured")]
  /\ UNCHANGED <<env, privateKey, kv, result, positions, conditionIds, idx,
                 invoked, creds, log, pending, ret, normHist>>

\* claimWinnings is called: the accumulator is created and getPositions awaited
PostStart(p) ==
  /\ pc[p] \in {"idle", "responded"}
  /\ Truthy(privateKey)
  /\ pc' = [pc EXCEPT ![p] = "fetching"]
  /\ result' = [result EXCEPT ![AccumulatorOf(p)] = ZeroResult]
  /\ positions' = [positions EXCEPT ![p] = <<>>]
  /\ conditionIds' = [conditionIds EXCEPT ![p] = <<>>]
  /\ idx' = [idx EXCEPT ![p] = 0]
  /\ invoked' = [invoked EXCEPT ![p] = {}]
  /\ creds' = [creds EXCEPT ![p] = NoCreds]
  /\ ret' = [ret EXCEPT ![p] = "none"]
  /\ resp' = [resp EXCEPT ![p] = NoResponse]
  /\ pending' = [pending EXCEPT ![p] =
                   {log[p][k].id : k \in {j \in 1..Len(log[p]) :
                                            log[p][j].outcome = "error"}}]
  /\ log' = [log EXCEPT ![p] = <<>>]
  /\ UNCHANGED <<env, privateKey, kv, normHist>>

\* getPositions rejects: claimWinnings throws, POST answers 500 from its catch
FetchFail(p) ==
  /\ pc[p] = "fetching"
  /\ pc' = [pc EXCEPT ![p] = "responded"]
  /\ ret' = [ret EXCEPT ![p] = "threw:getPositions"]
  /\ resp' = [resp EXCEPT ![p] = ErrorResponse("false", "getPositions failed")]
  /\ UNCHANGED <<env, privateKey, kv, result, positions, conditionIds, idx,
                 invoked, creds, log, pending, normHist>>

\* getPositions resolves with ps; claimWinnings runs on to its next await:
\* filter, early return, dedupe, strategy selection, redeemer setup and the
\* first call of the loop
FetchReturn(p, Lists) ==
  /\ pc[p] = "fetching"
  /\ \E held \in Lists :
       LET ps     == getPositions(held, PositionsLimit)
           red    == Redeemable(ps)
           ids    == DedupIds(red)
           useRel == useRelayer(env)
           inv    == InvokedRedeemers(useRel)
           cr     == BuilderCreds(env)
           \* claimViaRelayer: if (!key || !secret || !passphrase) return
           noCreds == useRel /\ ~(Truthy(cr.key) /\ Truthy(cr.secret) /\ Truthy(cr.passphrase))
       IN
       /\ positions' = [positions EXCEPT ![p] = BagOf(ps)]
       /\ pending' = [pending EXCEPT ![p] =
                        {c \in pending[p] :
                           \E k \in 1..Len(ps) :
                             /\ ps[k].conditionId = c
                             /\ ps[k].redeemable
                             /\ ps[k].size > 0}]
       /\ IF Len(red) = 0
          THEN /\ pc' = [pc EXCEPT ![p] = "saving"]
               /\ ret' = [ret EXCEPT ![p] = "returned"]
               /\ UNCHANGED <<conditionIds, idx, invoked, creds, log, resp>>
          ELSE /\ conditionIds' = [conditionIds EXCEPT ![p] = ids]
               /\ invoked' = [invoked EXCEPT ![p] = inv]
               /\ IF noCreds
                  THEN /\ pc' = [pc EXCEPT ![p] = "saving"]
                       /\ ret' = [ret EXCEPT ![p] = "returned"]
                       /\ UNCHANGED <<idx, creds, log, resp>>
                  ELSE IF SetupThrows(Via(inv), privateKey)
                  THEN /\ pc' = [pc EXCEPT ![p] = "responded"]
                       /\ ret' = [ret EXCEPT ![p] = "threw:setup"]
                       /\ resp' = [resp EXCEPT ![p] = ErrorResponse("false", "invalid private key")]
                       /\ UNCHANGED <<idx, creds, log>>
                  ELSE /\ creds' = [creds EXCEPT ![p] = IF useRel THEN cr ELSE NoCreds]
                       /\ IF Len(ids) = 0
                          THEN /\ pc' = [pc EXCEPT ![p] = "saving"]
                               /\ ret' = [ret EXCEPT ![p] = "returned"]
                               /\ UNCHANGED <<idx, log, resp>>
                          ELSE /\ pc' = [pc EXCEPT ![p] = "submitting"]
                               /\ idx' = [idx EXCEPT ![p] = 1]
                               /\ log' = [log EXCEPT ![p] = <<Iteration(ids[1], Via(inv))>>]
                               /\ UNCHANGED <<ret, resp>>
  /\ UNCHANGED <<env, privateKey, kv, result, normHist>>

\* the end of one loop iteration: the accumulator is newRes, the loop moves on
\* to the next condition or claimWinnings returns
EndIteration(p, newRes, outcome, msg, threw) ==
  LET n  == Len(conditionIds[p])
      k  == LoopNext(idx[p], n, threw)
      lg == Close(log[p], outcome, msg)
  IN
  /\ result' = [result EXCEPT ![AccumulatorOf(p)] = newRes]
  /\ idx' = [idx EXCEPT ![p] = k]
  /\ IF k = 0
     THEN /\ pc' = [pc EXCEPT ![p] = "saving"]
          /\ ret' = [ret EXCEPT ![p] = "returned"]
          /\ log' = [log EXCEPT ![p] = lg]
     ELSE /\ pc' = [pc EXCEPT ![p] = "submitting"]
          /\ log' = [log EXCEPT ![p] =
                       Append(lg, Iteration(conditionIds[p][k], Via(invoked[p])))]
          /\ UNCHANGED ret
  /\ UNCHANGED <<env, privateKey, kv, positions, conditionIds, invoked, creds,
                 pending, resp, normHist>>

\* relayClient.execute / ctf.redeemPositions (or the encoding before it) throws
SubmitFail(p) ==
  /\ pc[p] = "submitting"
  /\ \E msg \in Messages :
       EndIteration(p,
         RecordFailure(Via(invoked[p]), result[AccumulatorOf(p)],
                       conditionIds[p][idx[p]], msg),
         "error", msg, TRUE)

\* the submission resolves: response.wait() / tx.wait() is awaited
SubmitOk(p) ==
  /\ pc[p] = "submitting"
  /\ pc' = [pc EXCEPT ![p] = "waiting"]
  /\ UNCHANGED <<env, privateKey, kv, result, positions, conditionIds, idx,
                 invoked, creds, log, pending, ret, resp, normHist>>

\* the wait resolves with a transaction hash
WaitHash(p) ==
  /\ pc[p] = "waiting"
  /\ EndIteration(p,
       RecordReceipt(Via(invoked[p]), result[AccumulatorOf(p)],
                     TxHash(p, idx[p], log[p][Len(log[p])].data)),
       "hash", NoMsg, FALSE)

\* the wait resolves without a transaction hash: nothing is recorded
WaitNoHash(p) ==
  /\ pc[p] = "waiting"
  /\ EndIteration(p, result[AccumulatorOf(p)], "nohash", NoMsg, FALSE)

\* the wait rejects
WaitFail(p) ==
  /\ pc[p] = "waiting"
  /\ \E msg \in Messages :
       EndIteration(p,
         RecordFailure(Via(invoked[p]), result[AccumulatorOf(p)],
                       conditionIds[p][idx[p]], msg),
         "error", msg, TRUE)

\* claimWinnings returned; setState resolves and POST answers ok: true
SetStateOk(p) ==
  /\ pc[p] = "saving"
  /\ kv' = Persisted(result[AccumulatorOf(p)])
  /\ resp' = [resp EXCEPT ![p] = OkResponse(result[AccumulatorOf(p)])]
  /\ pc' = [pc EXCEPT ![p] = "responded"]
  /\ UNCHANGED <<env, privateKey, result, positions, conditionIds, idx, invoked,
                 creds, log, pending, ret, normHist>>

\* setState rejects: POST answers 500 from its catch
SetStateFail(p) ==
  /\ pc[p] = "saving"
  /\ resp' = [resp EXCEPT ![p] = ErrorResponse("false", "setState failed")]
  /\ pc' = [pc EXCEPT ![p] = "responded"]
  /\ UNCHANGED <<env, privateKey, kv, result, positions, conditionIds, idx,
                 invoked, creds, log, pending, ret, normHist>>

Handle(p, Lists) ==
  \/ PostNoKey(p)
  \/ PostStart(p)
  \/ FetchFail(p)
  \/ FetchReturn(p, Lists)
  \/ SubmitFail(p)
  \/ SubmitOk(p)
  \/ WaitHash(p)
  \/ WaitNoHash(p)
  \/ WaitFail(p)
  \/ SetStateOk(p)
  \/ SetStateFail(p)

----------------------------------------------------------------------------
(* Specifications.                                                         *)

\* requests one at a time, the documented credential configurations
Init ==
  /\ InitProgram(PrimaryEnvs)
  /\ normHist = <<>>

Next == \E p \in Sequential : Handle(p, PositionLists(MaxPositions))

Spec == Init /\ [][Next]_vars

\* one request, every credential configuration
InitEnv ==
  /\ InitProgram(EnvConfigs)
  /\ normHist = <<>>

NextEnv ==
  \E p \in Sequential :
    /\ pc[p] # "responded"
    /\ Handle(p, PositionLists(MaxShortPositions))

EnvSpec == InitEnv /\ [][NextEnv]_vars

\* concurrent requests
InitConc ==
  /\ InitProgram(PrimaryEnvs)
  /\ normHist = <<>>

NextConc == \E p \in Handlers : Handle(p, PositionLists(MaxShortPositions))

ConcSpec == InitConc /\ [][NextConc]_vars

\* one request, followed from POST to its response
InitRun ==
  /\ InitProgramWith(PrimaryEnvs, KvStates)
  /\ normHist = <<>>

NextRun ==
  \E p \in Sequential :
    /\ pc[p] # "responded"
    /\ Handle(p, PositionLists(MaxPositions))

RunSpec == InitRun /\ [][NextRun]_vars

\* two requests whose runs interleave, each followed to its response
Pair == {1, 2}

InitPair ==
  /\ InitProgram(PrimaryEnvs)
  /\ normHist = <<>>

NextPair ==
  \E p \in Pair :
    /\ pc[p] # "responded"
    /\ Handle(p, PositionLists(MaxShortPositions))

PairSpec == InitPair /\ [][NextPair]_vars

\* the normalizer applied to its own output
InitNorm ==
  /\ InitProgram({[n \in EnvNames |-> Unset]})
  /\ privateKey = Unset
  /\ normHist \in {<<x>> : x \in NormInputs}

Normalize ==
  /\ Len(normHist) <= MaxNormCalls
  /\ normHist' = Append(normHist, normalizeConditionId(normHist[Len(normHist)]))
  /\ UNCHANGED progVars

NextNorm == Normalize

NormSpec == InitNorm /\ [][NextNorm]_vars

----------------------------------------------------------------------------
(* Vocabulary of the claims.                                               *)

\* claimWinnings of handler p returned a ClaimResult
Returned(p) == ret[p] = "returned"

\* claimWinnings of handler p propagated an exception
Threw(p) == ret[p] \in {"threw:getPositions", "threw:setup"}

\* getPositions has answered the current run of handler p
Fetched(p) ==
  \/ pc[p] \in {"submitting", "waiting", "saving"}
  \/ ret[p] \in {"returned", "threw:setup"}

\* claimWinnings of handler p is in progress
Running(p) == pc[p] \in {"fetching", "submitting", "waiting"}

LogIds(p) == [k \in 1..Len(log[p]) |-> log[p][k].id]

LogOutcomes(p) == [k \in 1..Len(log[p]) |-> log[p][k].outcome]

\* the positions of a bag that are redeemable with a positive size
Claimable(bag) == {q \in DOMAIN bag : q.redeemable /\ q.size > 0}

\* the distinct non-empty string condition ids of the claimable positions
ClaimableIds(bag) ==
  {q.conditionId : q \in Claimable(bag)} \ {Undefined, EmptyId}

----------------------------------------------------------------------------
(* C1: partial failure isolation.  While the loop runs, the conditions     *)
(* attempted so far are the first idx conditions of the list, whatever     *)
(* failed among them; when claimWinnings returns after at least one        *)
(* failure, every condition of the list was attempted; and for three       *)
(* conditions whose calls end hash, error, hash the result is claimed = 2, *)
(* failed = 1, one error record, and the two hashes in processing order.   *)
C1_PartialFailureIsolation ==
  \A p \in Handlers :
    /\ pc[p] \in {"submitting", "waiting"} =>
         LogIds(p) = SubSeq(conditionIds[p], 1, idx[p])
    /\ (Returned(p) /\ \E k \in 1..Len(log[p]) : log[p][k].outcome = "error") =>
         LogIds(p) = conditionIds[p]
    /\ (Returned(p) /\ LogOutcomes(p) = <<"hash", "error", "hash">>) =>
         /\ result[p].claimed = 2
         /\ result[p].failed = 1
         /\ Len(result[p].errors) = 1
         /\ result[p].txHashes =
              <<TxHash(p, 1, log[p][1].data), TxHash(p, 3, log[p][3].data)>>

\* three conditions, only the second call raised, the run has returned
C1_Witness ==
  \E p \in Handlers :
    /\ Returned(p)
    /\ Len(conditionIds[p]) = 3
    /\ LogOutcomes(p) = <<"hash", "error", "hash">>
    /\ result[p].claimed = 2

----------------------------------------------------------------------------
(* C2: claimWinnings propagates an exception only when getPositions failed. *)
(* Stated as the claim states it; the code violates it: the redeemer setup *)
(* runs outside the try and rejects a malformed signing key.               *)
C2_OnlyFetchFailurePropagates ==
  \A p \in Handlers : Threw(p) => ret[p] = "threw:getPositions"

----------------------------------------------------------------------------
(* C3: when no fetched position is redeemable with size > 0, claimWinnings *)
(* returns the zero-valued result, no redeemer is invoked and no           *)
(* redemption call is made.                                                *)
C3_EmptySetReturnsZero ==
  \A p \in Handlers :
    (Fetched(p) /\ Claimable(positions[p]) = {}) =>
      /\ Returned(p)
      /\ result[p] = ZeroResult
      /\ invoked[p] = {}
      /\ log[p] = <<>>

\* a run that fetched positions, none of them claimable, and returned
C3_Witness ==
  \E p \in Handlers :
    /\ Fetched(p)
    /\ DOMAIN positions[p] # {}
    /\ Claimable(positions[p]) = {}
    /\ \E q \in DOMAIN positions[p] : q.redeemable /\ q.size = 0
    /\ Returned(p)

----------------------------------------------------------------------------
(* C4: every redemption attempt of a run is for a distinct non-empty       *)
(* string condition id of a position with redeemable = true and size > 0,  *)
(* no id is attempted twice, and when claimWinnings returns each such id   *)
(* was attempted.                                                          *)
C4_AttemptsAreTheDistinctIds ==
  \A p \in Handlers :
    /\ \A k \in 1..Len(log[p]) : log[p][k].id \in ClaimableIds(positions[p])
    /\ \A j, k \in 1..Len(log[p]) : j # k => log[p][j].id # log[p][k].id
    /\ Returned(p) =>
         {log[p][k].id : k \in 1..Len(log[p])} = ClaimableIds(positions[p])

\* a returned run whose list repeated a claimable condition id and held a
\* position that adds no attempt: a single attempt was made
C4_Witness ==
  \E p \in Handlers :
    /\ Returned(p)
    /\ Len(log[p]) = 1
    /\ \E q \in Claimable(positions[p]) :
         q.conditionId = log[p][1].id /\ positions[p][q] >= 2
    /\ \E q \in DOMAIN positions[p] : ~(q.redeemable /\ q.size > 0)

----------------------------------------------------------------------------
(* C5: a run with a non-empty redeemable set uses the relayed redeemer if  *)
(* and only if the key, the secret and the passphrase the process reads    *)
(* are all non-empty, and the direct redeemer otherwise; from a            *)
(* configuration that selects relayed, every configuration that differs in *)
(* one credential only, that credential now empty, selects direct.         *)

\* the value the process reads for a credential: primary ?? fallback
CredentialRead(e, primary, fallback) ==
  IF e[primary] = Unset THEN e[fallback] ELSE e[primary]

NonEmpty(v) == v # Unset /\ v # ""

CredentialPairs ==
  {<<"POLY_BUILDER_API_KEY", "BUILDER_API_KEY">>,
   <<"POLY_BUILDER_SECRET", "BUILDER_SECRET">>,
   <<"POLY_BUILDER_PASSPHRASE", "BUILDER_PASSPHRASE">>}

AllCredentialsRead(e) ==
  \A c \in CredentialPairs : NonEmpty(CredentialRead(e, c[1], c[2]))

\* the configurations that differ from e only in the two sources of c
VariantsOf(e, c) ==
  {[e EXCEPT ![c[1]] = a, ![c[2]] = b] :
     a \in EnvValues(c[1]), b \in EnvValues(c[2])}

C5_StrategySelection ==
  \A p \in Handlers :
    /\ (Fetched(p) /\ Claimable(positions[p]) # {}) =>
         /\ AllCredentialsRead(env) => invoked[p] = {"relayed"}
         /\ ~AllCredentialsRead(env) => invoked[p] = {"direct"}
    /\ \A k \in 1..Len(log[p]) :
         log[p][k].via = IF AllCredentialsRead(env) THEN "relayed" ELSE "direct"
    /\ invoked[p] = {"relayed"} =>
         \A c \in CredentialPairs :
           \A f \in VariantsOf(env, c) :
             ~NonEmpty(CredentialRead(f, c[1], c[2])) =>
               InvokedRedeemers(useRelayer(f)) = {"direct"}

\* a relayed run under a configuration that takes a credential from its
\* fallback name, with a redemption attempted
C5_Witness ==
  \E p \in Handlers :
    /\ invoked[p] = {"relayed"}
    /\ Len(log[p]) > 0
    /\ env["POLY_BUILDER_SECRET"] = Unset
    /\ env["BUILDER_SECRET"] = "BUILDER_SECRET"

----------------------------------------------------------------------------
(* C6: each credential is the first non-empty of its primary and fallback  *)
(* source, and that value decides the strategy and is given to the relay   *)
(* client.  Stated as the claim states it; the code violates it: a ?? b    *)
(* keeps a primary that is set to the empty string.                        *)

FirstNonEmpty(e, primary, fallback) ==
  IF NonEmpty(e[primary]) THEN e[primary]
  ELSE IF NonEmpty(e[fallback]) THEN e[fallback]
  ELSE Unset

IntendedCreds(e) ==
  [key        |-> FirstNonEmpty(e, "POLY_BUILDER_API_KEY", "BUILDER_API_KEY"),
   secret     |-> FirstNonEmpty(e, "POLY_BUILDER_SECRET", "BUILDER_SECRET"),
   passphrase |-> FirstNonEmpty(e, "POLY_BUILDER_PASSPHRASE", "BUILDER_PASSPHRASE")]

AllIntended(e) ==
  /\ NonEmpty(IntendedCreds(e).key)
  /\ NonEmpty(IntendedCreds(e).secret)
  /\ NonEmpty(IntendedCreds(e).passphrase)

C6_CredentialPrecedence ==
  \A p \in Handlers :
    /\ (invoked[p] # {} /\ AllIntended(env)) => invoked[p] = {"relayed"}
    /\ Len(log[p]) > 0 /\ invoked[p] = {"relayed"} => creds[p] = IntendedCreds(env)

----------------------------------------------------------------------------
(* C7: a run dispatches its list to exactly one redeemer: never both, and  *)
(* no direct-path attempt follows failures on the relayed path.            *)
C7_ExactlyOneRedeemer ==
  \A p \in Handlers :
    /\ Cardinality(invoked[p]) <= 1
    /\ conditionIds[p] # <<>> => Cardinality(invoked[p]) = 1
    /\ \A k \in 1..Len(log[p]) : invoked[p] = {log[p][k].via}
    /\ \A j, k \in 1..Len(log[p]) :
         (j < k /\ log[p][j].via = "relayed" /\ log[p][j].outcome = "error") =>
           log[p][k].via = "relayed"

\* a returned relayed run of three conditions of which two failed
C7_Witness ==
  \E p \in Handlers :
    /\ Returned(p)
    /\ invoked[p] = {"relayed"}
    /\ Len(log[p]) = 3
    /\ result[p].failed >= 2

----------------------------------------------------------------------------
(* C8: no retry inside a run: no condition id is attempted twice, and each *)
(* failed attempt is one increment of failed and one error record.  The    *)
(* next run attempts again every id that failed before and that the        *)
(* Position Source reports again as redeemable with size > 0 (pending),    *)
(* and no run attempts an id its own getPositions answer does not report   *)
(* so.                                                                     *)
ErrorCount(p) ==
  Cardinality({k \in 1..Len(log[p]) : log[p][k].outcome = "error"})

C8_RetryOnlyOnNextRun ==
  \A p \in Handlers :
    /\ \A j, k \in 1..Len(log[p]) : j # k => log[p][j].id # log[p][k].id
    /\ result[p].failed = ErrorCount(p)
    /\ Len(result[p].errors) = ErrorCount(p)
    /\ Returned(p) => \A c \in pending[p] : \E k \in 1..Len(log[p]) : log[p][k].id = c
    /\ \A k \in 1..Len(log[p]) :
         \E q \in DOMAIN positions[p] :
           q.conditionId = log[p][k].id /\ q.redeemable /\ q.size > 0

\* a returned run, after a persisted earlier one, that attempted again an id
\* that failed in the run before, this time with a hash
C8_Witness ==
  \E p \in Handlers :
    /\ Returned(p)
    /\ kv.lastClaimResult # <<>>
    /\ \E c \in pending[p] :
         \E k \in 1..Len(log[p]) : log[p][k].id = c /\ log[p][k].outcome = "hash"

----------------------------------------------------------------------------
(* C9: at most one claimWinnings run is in progress at a time, and no      *)
(* condition is in the redemption calls of two runs in progress.  Stated   *)
(* as the claim states it; the code violates it: POST starts claimWinnings *)
(* for every request, with no lock.                                        *)
C9_AtMostOneRunAtATime ==
  /\ Cardinality({p \in Handlers : Running(p)}) <= 1
  /\ \A p, q \in Handlers :
       (p # q /\ Running(p) /\ Running(q)) =>
         \A j \in 1..Len(log[p]) : \A k \in 1..Len(log[q]) :
           log[p][j].data # log[q][k].data

----------------------------------------------------------------------------
(* C10: normalizeConditionId is idempotent: applied to its own output it   *)
(* returns that output.                                                    *)
C10_NormalizeIdempotent ==
  \A k \in 2..(Len(normHist) - 1) : normHist[k + 1] = normHist[k]

\* the normalizer was applied twice to a prefixed input longer than 66
\* characters, which its first application changed
C10_Witness ==
  /\ Len(normHist) >= 3
  /\ StartsWith(normHist[1], HexPrefix)
  /\ Len(normHist[1]) > PadWidth + 2
  /\ normHist[2] # normHist[1]

----------------------------------------------------------------------------
(* Vocabulary of the claims on strings.                                    *)

HexDigits ==
  {"0", "1", "2", "3", "4", "5", "6", "7", "8", "9",
   "a", "b", "c", "d", "e", "f", "A", "B", "C", "D", "E", "F"}

IsHex(s) == \A i \in 1..Len(s) : s[i] \in HexDigits

\* the input without its optional 0x prefix
Body(s) == IF StartsWith(s, HexPrefix) THEN SliceFrom(s, 2) ELSE s

\* 0x followed by exactly 64 characters
PrefixedWord(s) == Len(s) = PadWidth + 2 /\ StartsWith(s, HexPrefix)

----------------------------------------------------------------------------
(* C11, as the claim states it: for every non-empty input the output of    *)
(* normalizeConditionId is 0x followed by exactly 64 hexadecimal digits.   *)
(* The normalizer validates nothing: characters of the input that are not  *)
(* hexadecimal digits reach the output.                                    *)
C11_AlwaysHexWord ==
  \A k \in 1..(Len(normHist) - 1) :
    Len(normHist[k]) > 0 =>
      /\ PrefixedWord(normHist[k + 1])
      /\ IsHex(SliceFrom(normHist[k + 1], 2))

(* C11, amended: for every input the output of normalizeConditionId is 0x  *)
(* followed by exactly 64 characters, and these are hexadecimal digits     *)
(* when the input, without its optional 0x prefix, consists of hexadecimal *)
(* digits.                                                                 *)
C11_HexWordForHexInput ==
  \A k \in 1..(Len(normHist) - 1) :
    /\ PrefixedWord(normHist[k + 1])
    /\ IsHex(Body(normHist[k])) => IsHex(SliceFrom(normHist[k + 1], 2))

\* the normalizer was applied to a prefixed input of more than 64 hexadecimal
\* digits, which it cut to 0x and the last 64 of them
C11_Witness ==
  /\ Len(normHist) >= 2
  /\ StartsWith(normHist[1], HexPrefix)
  /\ IsHex(Body(normHist[1]))
  /\ Len(Body(normHist[1])) > PadWidth
  /\ PrefixedWord(normHist[2])
  /\ normHist[2] # normHist[1]

----------------------------------------------------------------------------
(* Vocabulary of the claims on the loop.                                   *)

\* the first n characters of s, all of s when it is shorter
FirstChars(s, n) == [i \in 1..(IF Len(s) < n THEN Len(s) ELSE n) |-> s[i]]

\* what the template literal puts between the id and the message
Separator == <<"...", ":", " ">>

\* the iterations of handler p that ended in the catch block, in order
Failures(p) == SelectSeq(log[p], LAMBDA e : e.outcome = "error")

\* the iterations of handler p that ended with a transaction hash, in order
Receipts(p) == SelectSeq(log[p], LAMBDA e : e.outcome = "hash")

----------------------------------------------------------------------------
(* C12: in both redeemers the error record appended for a failed condition *)
(* is the first 10 characters of the condition id, followed (after the     *)
(* fixed separator of the template) by the first 80 characters of the      *)
(* message of the error: an id longer than 10 contributes exactly its      *)
(* first 10 characters and a message longer than 80 exactly its first 80.  *)
C12_ErrorRecordTruncation ==
  \A p \in Handlers :
    /\ Len(result[p].errors) = Len(Failures(p))
    /\ \A j \in 1..Len(Failures(p)) :
         LET e   == Failures(p)[j]
             rec == result[p].errors[j]
         IN  /\ rec = FirstChars(e.id, IdPrefixLen) \o Separator
                         \o FirstChars(e.msg, MsgLimit)
             /\ Len(e.id) > IdPrefixLen /\ Len(e.msg) > MsgLimit =>
                  Len(rec) = IdPrefixLen + Len(Separator) + MsgLimit

\* the direct redeemer caught an error of 81 characters for a condition id
\* of 66 characters
C12_Witness ==
  \E p \in Handlers :
    /\ Len(Failures(p)) = 1
    /\ Failures(p)[1].via = "direct"
    /\ Failures(p)[1].id = IdAbcFull
    /\ Failures(p)[1].msg = LongMsg
    /\ Len(result[p].errors) = 1

----------------------------------------------------------------------------
(* C13, as the claim states it: no two redemption calls of one run carry   *)
(* the same normalized condition id.  The code removes duplicates among    *)
(* the ids as the Position Source spells them and normalizes afterwards,   *)
(* so two spellings of one condition are redeemed twice.                   *)
C13_NoConditionTwiceOnChain ==
  \A p \in Handlers :
    \A j, k \in 1..Len(log[p]) :
      j # k => log[p][j].data # log[p][k].data

----------------------------------------------------------------------------
(* C14: within one run at most one redemption is in flight: only the last  *)
(* iteration started can be awaiting its submission or its confirmation,   *)
(* every iteration before it has completed with a result or a failure, and *)
(* the run is at an await of the loop exactly when its last iteration is   *)
(* in flight.                                                              *)
C14_OneRedemptionInFlight ==
  \A p \in Handlers :
    /\ \A k \in 1..Len(log[p]) :
         log[p][k].outcome = "pending" =>
           k = Len(log[p]) /\ pc[p] \in {"submitting", "waiting"}
    /\ pc[p] \in {"submitting", "waiting"} =>
         /\ Len(log[p]) = idx[p]
         /\ idx[p] >= 1
         /\ log[p][idx[p]].outcome = "pending"

\* the submission of the third condition is awaited after the first
\* iteration ended with a hash and the second in the catch block
C14_Witness ==
  \E p \in Handlers :
    /\ pc[p] = "submitting"
    /\ idx[p] = 3
    /\ log[p][1].outcome = "hash"
    /\ log[p][2].outcome = "error"
    /\ log[p][3].outcome = "pending"

----------------------------------------------------------------------------
(* C15, as the claim states it: when claimWinnings returns, claimed +      *)
(* failed equals the number of deduplicated condition ids dispatched to    *)
(* the redeemer, whatever the per-condition results were.  A confirmation  *)
(* without a transaction hash is counted in neither.                       *)
C15_EveryConditionCounted ==
  \A p \in Handlers :
    Returned(p) =>
      result[p].claimed + result[p].failed = Len(conditionIds[p])

----------------------------------------------------------------------------
(* C16: accumulator consistency.  At every point of a run, and in the      *)
(* ClaimResult the response carries, the length of txHashes equals claimed *)
(* and the length of errors equals failed; while the run is in progress    *)
(* claimed and failed never decrease and txHashes and errors change only   *)
(* by having elements appended.                                            *)
IsPrefixOf(a, b) == Len(a) <= Len(b) /\ SubSeq(b, 1, Len(a)) = a

Consistent(r) == Len(r.txHashes) = r.claimed /\ Len(r.errors) = r.failed

C16_AccumulatorConsistency ==
  /\ [](\A p \in Handlers :
          /\ Consistent(result[p])
          /\ resp[p].ok = "true" => Consistent(resp[p]))
  /\ [][\A p \in Handlers :
          Running(p) =>
            /\ result'[p].claimed >= result[p].claimed
            /\ result'[p].failed >= result[p].failed
            /\ IsPrefixOf(result[p].txHashes, result'[p].txHashes)
            /\ IsPrefixOf(result[p].errors, result'[p].errors)]_vars

\* a response carries a result with two hashes and one error record
C16_Witness ==
  \E p \in Handlers :
    /\ resp[p].ok = "true"
    /\ resp[p].claimed = 2
    /\ resp[p].failed = 1
    /\ Len(resp[p].txHashes) = 2
    /\ Len(resp[p].errors) = 1

----------------------------------------------------------------------------
(* C17: the direct and the relayed redeemer are outcome-equivalent.  For   *)
(* the condition ids and the per-condition outcomes (hash, no hash, error  *)
(* with its message) of every run, the loop of claimViaDirect and the loop *)
(* of claimViaRelayer leave the same accumulator, and that accumulator is  *)
(* the one the run has.                                                    *)

\* the accumulator the loop of redeemer via leaves after the first k
\* iterations of the run of handler p
RECURSIVE Replay(_, _, _)
Replay(via, p, k) ==
  IF k = 0 THEN ZeroResult
  ELSE LET e    == log[p][k]
           prev == Replay(via, p, k - 1)
       IN  CASE e.outcome = "hash" ->
                  RecordReceipt(via, prev, TxHash(p, k, e.data))
             [] e.outcome = "error" ->
                  RecordFailure(via, prev, e.id, e.msg)
             [] OTHER -> prev

C17_RedeemersOutcomeEquivalent ==
  \A p \in Handlers :
    /\ Replay("direct", p, Len(log[p])) = Replay("relayed", p, Len(log[p]))
    /\ result[p] = Replay(Via(invoked[p]), p, Len(log[p]))

\* the direct redeemer has returned from a run whose three calls ended with
\* a hash, without a hash, and with an error of 81 characters
C17_Witness ==
  \E p \in Handlers :
    /\ Returned(p)
    /\ invoked[p] = {"direct"}
    /\ LogOutcomes(p) = <<"hash", "nohash", "error">>
    /\ log[p][3].msg = LongMsg
    /\ result[p].claimed = 1
    /\ result[p].failed = 1

----------------------------------------------------------------------------
(* C18: the accumulator is local to one run.  When the runs of two         *)
(* requests interleave, the claimed, failed, errors and txHashes of each   *)
(* run, and of the response built from it, come from the redemption        *)
(* attempts of that run only, and a run that has just started has the      *)
(* zero-valued result.                                                     *)
OwnAttemptsOnly(p, r) ==
  /\ r.claimed = Len(Receipts(p))
  /\ r.failed = Len(Failures(p))
  /\ Len(r.txHashes) = Len(Receipts(p))
  /\ Len(r.errors) = Len(Failures(p))
  /\ \A j \in 1..Len(r.txHashes) :
       /\ r.txHashes[j].by = p
       /\ r.txHashes[j].cond = Receipts(p)[j].data
  /\ \A j \in 1..Len(r.errors) :
       IsPrefixOf(FirstChars(Failures(p)[j].id, IdPrefixLen), r.errors[j])

C18_AccumulatorLocalToRun ==
  \A p \in Pair :
    /\ pc[p] = "fetching" => result[p] = ZeroResult
    /\ pc[p] \in {"submitting", "waiting", "saving"} => OwnAttemptsOnly(p, result[p])
    /\ resp[p].ok = "true" => OwnAttemptsOnly(p, resp[p])

\* the first run awaits the confirmation for one condition while the second
\* run, which recorded a failure for another condition, has just returned
C18_Witness ==
  /\ pc[1] = "waiting"
  /\ log[1][1].id = IdAbc
  /\ result[1] = ZeroResult
  /\ pc[2] = "saving"
  /\ Len(log[2]) = 1
  /\ log[2][1].id = IdDef
  /\ result[2].failed = 1
  /\ result[2].claimed = 0

----------------------------------------------------------------------------
(* C19, as the claim states it: a run ends by returning, or by raising on  *)
(* a position-fetch failure, after a number of redemption attempts bounded *)
(* by the number of fetched positions (at most 200), and no condition is   *)
(* attempted a second time.  Stated on finite runs: the bounds hold in     *)
(* every state and a run that has ended has ended in one of the two ways.  *)
(* The code violates the last part: see C2.                                *)

\* the number of positions in a bag
RECURSIVE BagSize(_)
BagSize(bag) ==
  IF DOMAIN bag = {} THEN 0
  ELSE LET q == CHOOSE x \in DOMAIN bag : TRUE
       IN  bag[q] + BagSize([x \in DOMAIN bag \ {q} |-> bag[x]])

FetchedCount(p) == IF positions[p] = <<>> THEN 0 ELSE BagSize(positions[p])

C19_RunEndsByReturnOrFetchFailure ==
  \A p \in Handlers :
    /\ Len(log[p]) <= FetchedCount(p)
    /\ FetchedCount(p) <= PositionsLimit
    /\ \A j, k \in 1..Len(log[p]) : j # k => log[p][j].id # log[p][k].id
    /\ ret[p] # "none" => (Returned(p) \/ ret[p] = "threw:getPositions")

----------------------------------------------------------------------------
(* C20: POST writes the persistent state only after claimWinnings has      *)
(* returned.  A request that is answered without PRIVATE_KEY configured or *)
(* after claimWinnings raised gets a 500 response and leaves lastClaimAt   *)
(* and lastClaimResult as they were; the store changes only in the step in *)
(* which a handler whose claimWinnings has returned answers ok: true; and  *)
(* when the response is ok: true the persisted lastClaimResult holds the   *)
(* claimed and failed counts of the response.                              *)
C20_PersistOnlyAfterReturn ==
  /\ [][\A p \in Handlers :
          (/\ pc[p] # "responded"
           /\ pc'[p] = "responded"
           /\ ~Truthy(privateKey) \/ ret'[p] \in {"threw:getPositions", "threw:setup"})
          => (kv' = kv /\ resp'[p].status = 500)]_vars
  /\ [][kv' # kv =>
          \E p \in Handlers :
            /\ pc[p] = "saving"
            /\ Returned(p)
            /\ resp'[p].ok = "true"]_vars
  /\ [](\A p \in Handlers :
          resp[p].ok = "true" =>
            /\ kv.lastClaimAt = Stamped
            /\ kv.lastClaimResult =
                 <<[claimed |-> resp[p].claimed, failed |-> resp[p].failed]>>)

\* a store that held an earlier result now holds the counts of a response
\* with two claimed conditions and one failed
C20_Witness ==
  \E p \in Handlers :
    /\ resp[p].ok = "true"
    /\ resp[p].claimed = 2
    /\ resp[p].failed = 1
    /\ kv = Persisted(result[p])
    /\ kv # KvFresh

====
